---- MODULE Spec2Model ----
(***************************************************************************)
(* Model of the Krishi Mitra service worker, frontend/public/custom-sw.js: *)
(* the data GET route ('api-data' cache), the advice POST route with its   *)
(* workbox background-sync queue 'adviceQueue', and the                    *)
(* PRECACHE_LATEST_DATASETS message handler, the router that dispatches to *)
(* them, and of the VoiceChatBar component,                                *)
(* frontend/components/VoiceChatBar.js, the OfflineBanner component,       *)
(* frontend/components/OfflineBanner.tsx, and the chat sessions and the    *)
(* read-aloud state of the Ask page, frontend/pages/ask.js.                *)
(*                                                                         *)
(* The worker runs on one event loop.  A handler is split into steps only  *)
(* where it awaits something another handler can interleave with (the      *)
(* replay loop's fetch, the prefetch's per-URL cache.add).                 *)
(***************************************************************************)
EXTENDS Integers, Sequences, FiniteSets, TLC

(* ---------------- bounds of the model ---------------- *)
MaxClock == 3
MaxRequests == 2
MaxDeliveries == 2
MaxPrecache == 1
MaxFresh == 31
MaxFetches == 3
MaxRecognitions == 2
MaxAskClock == 6
MaxRetries == 3
MaxBannerTime == 6
MaxUtterances == 4

(* one step of the model clock, in minutes *)
TickMinutes == 12 * 60

(* ---------------- program constants ---------------- *)
(* custom-sw.js:56  maxRetentionTime: 24 * 60 (minutes) *)
maxRetentionTime == 24 * 60
(* custom-sw.js:40  ExpirationPlugin({ maxEntries: 30, maxAgeSeconds: 24*60*60 }) *)
maxEntries == 30
maxAgeMinutes == (24 * 60 * 60) \div 60

LocalApi == "http://localhost:5001"
ProdApi == "https://krishi-mitra-backend.onrender.com"
Origins == {"http://localhost:3000", "https://krishi.example", LocalApi, ProdApi}

VARIABLES
  hostname,      \* self.location.hostname of the worker
  processEnv,    \* whether the worker's global scope has process.env at all
  online,        \* whether the network is reachable
  clock,         \* Date.now(), in minutes
  adviceQueue,   \* the 'adviceQueue' store: entries oldest first
  syncRegistered,          \* a 'sync' event for the queue's tag is pending
  syncInProgress,          \* Queue._syncInProgress
  requestsAddedDuringSync, \* Queue._requestsAddedDuringSync
  replayPc,      \* position of replayRequests: "idle", "loop", "fetch"
  inflight,      \* the entry shifted out of the store and being fetched
  nextId,        \* number of advice POSTs handled so far, plus one
  delivered,     \* per request: how often the backend received it
  fate,          \* per request: "none", "live", "error", "queued", "replayed", "dropped"
  lastPost,      \* the last advice POST handled and its response
  queuedOffline, \* ids of the /backend/advice POSTs queued with the network down
  lastDrops,     \* the entries the last shiftRequest discarded unreplayed
  attempted,     \* ids fetched by the replay in progress, in order
  triggerTime,   \* clock at the 'sync' event being handled
  apiData,       \* the 'api-data' cache: URL -> entry
  precachePc,    \* "idle" or "fetching" (inside Promise.all)
  pending,       \* manifest URLs whose cache.add has not settled
  fetchOk,       \* manifest URLs whose fetch succeeded in this prefetch
  fetchFailed,   \* manifest URLs whose fetch failed in this prefetch
  precacheCount, \* PRECACHE_LATEST_DATASETS messages received
  offlineReady,  \* OFFLINE_READY broadcasts posted
  lastGet,       \* the last data GET handled and its response
  handledOnline, \* the URLs a GET was handled for with the backend reachable
  storeOrder,    \* the fresh URLs among them, in the order they were handled
  nextFresh,     \* next unused district number of a weather URL
  staticResources, \* the 'static-resources' cache: the URLs stored
  images,        \* the 'images' cache: the URLs stored
  lastFetch,     \* the last request the router saw, its route and its response
  fetchCount,    \* number of requests the router has seen
  mounted,       \* VoiceChatBar is rendered and its effects have run
  hasSTT,        \* window.SpeechRecognition or webkitSpeechRecognition exists
  supported,     \* VoiceChatBar state
  recording,     \* VoiceChatBar state
  transcript,    \* VoiceChatBar state: "" or some text
  error,         \* VoiceChatBar state
  recognitions,  \* the recognition objects started and not yet ended
  nextRecognition, \* number of recognition objects created so far, plus one
  lastStt,       \* the last event VoiceChatBar handled
  lastIssued,    \* the last advice POST and the request built from it
  syncing,       \* OfflineBanner state
  synced,        \* OfflineBanner state
  retryCount,    \* number of handleRetry calls so far
  listeners,     \* the retries whose 'message' handler is registered on window
  timers,        \* the pending setTimeout callbacks: [retry, due]
  answers,       \* the retries whose OFFLINE_READY has not been delivered yet
  bannerNow,     \* time since the banner was rendered, in steps of 4 seconds
  retryAt,       \* bannerNow at the last handleRetry
  lastSyncEnd,   \* what last set syncing to false
  sessions,      \* Ask page state: the sessions in insertion order
  currentSessionId, \* Ask page state: 0 stands for null
  loading,       \* Ask page state
  asking,        \* the advice requests of handleAsk that are in flight
  stored,        \* localStorage['krishimitra-chat-sessions']
  askClock,      \* Date.now() as the Ask page reads it
  deleted,       \* the calls of deleteSession: [id, wasCurrent]
  lastReply,     \* the last request of handleAsk that settled, and its message
  isSpeaking,    \* Ask page state
  currentSpeakingMessageId, \* Ask page state: 0 stands for null
  utterances,    \* the utterances given to speechSynthesis and not yet done with
  nextUtterance  \* number of utterances created so far, plus one

envVars == <<hostname, processEnv, online, clock>>
queueVars == <<adviceQueue, syncRegistered, syncInProgress, requestsAddedDuringSync,
               replayPc, inflight, nextId, delivered, fate, lastPost, queuedOffline,
               lastDrops, attempted,
               triggerTime>>
cacheVars == <<apiData, precachePc, pending, fetchOk, fetchFailed, precacheCount,
               offlineReady, lastGet, handledOnline, storeOrder, nextFresh>>
routeVars == <<staticResources, images, lastFetch, fetchCount>>
voiceVars == <<mounted, hasSTT, supported, recording, transcript, error, recognitions,
               nextRecognition, lastStt>>
rewriteVars == <<lastIssued>>
bannerVars == <<syncing, synced, retryCount, listeners, timers, answers, bannerNow,
                retryAt, lastSyncEnd>>
askVars == <<sessions, currentSessionId, loading, asking, stored, askClock, deleted,
             lastReply>>
speakVars == <<isSpeaking, currentSpeakingMessageId, utterances, nextUtterance>>
uiVars == <<voiceVars, rewriteVars, bannerVars, askVars, speakVars>>
besidesVoice == <<rewriteVars, bannerVars, askVars, speakVars>>
besidesRewrite == <<voiceVars, bannerVars, askVars, speakVars>>
besidesBanner == <<voiceVars, rewriteVars, askVars, speakVars>>
besidesAsk == <<voiceVars, rewriteVars, bannerVars, speakVars>>
besidesSpeak == <<voiceVars, rewriteVars, bannerVars, askVars>>
workerVars == <<envVars, queueVars, cacheVars, routeVars>>
pageVars == <<routeVars, uiVars>>
vars == <<envVars, queueVars, cacheVars, pageVars>>

None == [kind |-> "none"]

(* ---------------- URLs ---------------- *)
(* A URL string is a sequence of tokens: an origin, path segments, and a   *)
(* last token holding the query ("" when there is none).                   *)
AdviceProxyUrl(origin) == <<origin, "backend", "advice", "">>
AdviceDirectUrl(origin) == <<origin, "advice", "">>

PageOrigin == IF hostname = "localhost" THEN "http://localhost:3000"
              ELSE "https://krishi.example"

(* what the pages call apiUrl: process.env.NEXT_PUBLIC_API_URL or the      *)
(* local backend (pages/ask.js:455, pages/prices.js:37)                    *)
PageApi == IF hostname = "localhost" THEN LocalApi ELSE ProdApi

(* custom-sw.js:60-68.  "threw" stands for the ReferenceError of reading   *)
(* process.env in a scope that has no process.                             *)
getApiUrl ==
  IF hostname = "localhost" THEN LocalApi
  ELSE IF processEnv THEN ProdApi
  ELSE "threw"

(* String.prototype.includes / replace on the token sequence: the first   *)
(* occurrence of '/backend/advice'.                                        *)
IndexOfBackendAdvice(url) ==
  LET hits == {i \in 1..(Len(url) - 1) : url[i] = "backend" /\ url[i + 1] = "advice"}
  IN IF hits = {} THEN 0 ELSE CHOOSE i \in hits : \A j \in hits : i <= j

IncludesBackendAdvice(url) == IndexOfBackendAdvice(url) # 0

ReplaceBackendAdvice(url, with) ==
  LET i == IndexOfBackendAdvice(url)
  IN IF i = 0 THEN url
     ELSE SubSeq(url, 1, i - 1) \o with \o SubSeq(url, i + 2, Len(url))

(* custom-sw.js:77-80: the URL handed to new Request *)
RequestUrl(url) ==
  IF IncludesBackendAdvice(url)
    THEN IF getApiUrl = "threw" THEN <<"threw">>
         ELSE ReplaceBackendAdvice(url, <<getApiUrl, "advice">>)
    ELSE url

(* A URL string names a host that exists only if its one origin is its     *)
(* first token; an origin pasted after another one gives an invalid port  *)
(* or a host name nobody serves.                                           *)
WellFormed(url) ==
  /\ Len(url) >= 2
  /\ url[1] \in Origins
  /\ \A i \in 2..Len(url) : url[i] \notin Origins


(* ---------------- initial state ---------------- *)
RequestIds == 1..MaxRequests

QueueInit ==
  /\ adviceQueue = <<>>
  /\ syncRegistered = FALSE
  /\ syncInProgress = FALSE
  /\ requestsAddedDuringSync = FALSE
  /\ replayPc = "idle"
  /\ inflight = None
  /\ nextId = 1
  /\ delivered = [i \in RequestIds |-> 0]
  /\ fate = [i \in RequestIds |-> "none"]
  /\ lastPost = None
  /\ queuedOffline = {}
  /\ lastDrops = {}
  /\ attempted = <<>>
  /\ triggerTime = 0

EnvInit ==
  /\ hostname \in {"localhost", "krishi.example"}
  /\ processEnv \in (IF hostname = "localhost" THEN {FALSE} ELSE BOOLEAN)
  /\ online \in BOOLEAN
  /\ clock = 0

(* ---------------- the environment ---------------- *)
(* The clock moves in steps of 12 hours: between handlers, and while the   *)
(* replay loop waits for a fetch (no fetch has a timeout).  It does not    *)
(* move between the local steps of the replay loop, and the entries of one *)
(* prefetch get one timestamp.                                             *)
Tick ==
  /\ clock < MaxClock * TickMinutes
  /\ replayPc # "loop"
  /\ precachePc = "idle"
  /\ clock' = clock + TickMinutes
  /\ UNCHANGED <<hostname, processEnv, online, queueVars, cacheVars, pageVars>>

NetworkDown ==
  /\ online
  /\ online' = FALSE
  /\ UNCHANGED <<hostname, processEnv, clock, queueVars, cacheVars, pageVars>>

NetworkUp ==
  /\ ~online
  /\ online' = TRUE
  /\ UNCHANGED <<hostname, processEnv, clock, queueVars, cacheVars, pageVars>>

(* ---------------- advice POST route, custom-sw.js:70-103 ---------------- *)
(* POSTs the route matches (custom-sw.js:71-73): the page's proxy path and *)
(* the backend's own /advice, which is what the pages post to.             *)
AdviceUrls == {AdviceProxyUrl(PageOrigin), AdviceDirectUrl(PageApi)}

QueuedBody == [queued |-> TRUE,
               message |-> "You are offline. Your advice will be sent when back online."]
QueuedResponse == [status |-> 202, body |-> QueuedBody]

(* slip: the handler answers with a response of its own making *)
LiveResponseAlwaysOk(id, st) ==
  [status |-> 200, body |-> [queued |-> FALSE, message |-> "advice"]]

LiveResponse(id, st) == [status |-> st, body |-> [queued |-> FALSE, message |-> "advice"]]
(* Response.error(): the caller's fetch rejects *)
ErrorResponse == [status |-> 0, body |-> [queued |-> FALSE, message |-> "network error"]]

(* What the try block (lines 75-90) can do for this request: "resolved"    *)
(* when fetch returned a response of some status, "threw" when getApiUrl,  *)
(* new Request or fetch threw.  received says whether the backend got the  *)
(* request: a fetch can fail after the request went out.                   *)
TryOutcomes(url) ==
  LET target == RequestUrl(url)
      noCall == {[net |-> "threw", issued |-> FALSE, received |-> FALSE, status |-> 0]}
      failed == {[net |-> "threw", issued |-> TRUE, received |-> FALSE, status |-> 0]}
      lost   == {[net |-> "threw", issued |-> TRUE, received |-> TRUE, status |-> 0]}
      done   == {[net |-> "resolved", issued |-> TRUE, received |-> TRUE, status |-> st] :
                   st \in {200, 500}}
  IN IF target = <<"threw">> THEN noCall
     ELSE IF ~WellFormed(target) THEN failed
     ELSE IF online THEN done \cup failed \cup lost
     ELSE failed

(* Queue.registerSync, called at the end of Queue._addRequest *)
SyncAfterAdd ==
  IF syncInProgress
    THEN /\ requestsAddedDuringSync' = TRUE
         /\ UNCHANGED syncRegistered
    ELSE /\ syncRegistered' = TRUE
         /\ UNCHANGED requestsAddedDuringSync

(* slip: the new entry put in front of the older ones *)
pushRequestInFront(id, url) ==
  /\ adviceQueue' = <<[id |-> id, timestamp |-> clock, url |-> url]>> \o adviceQueue
  /\ SyncAfterAdd

(* adviceQueue.pushRequest({request: event.request}), custom-sw.js:92:     *)
(* the ORIGINAL request is stored, with Date.now() as its timestamp.       *)
pushRequest(id, url) ==
  /\ adviceQueue' = Append(adviceQueue, [id |-> id, timestamp |-> clock, url |-> url])
  /\ SyncAfterAdd

LogEntry(url, try, resp) ==
  [kind |-> "handled", id |-> nextId, url |-> url, net |-> try.net,
   netStatus |-> try.status, response |-> resp]

(* The whole handler.  push is the outcome of the awaited pushRequest:     *)
(* it rejects when the request cannot be cloned or the store cannot be     *)
(* written; nothing catches that, so the route's promise rejects and the   *)
(* router's catch handler (lines 130-135) answers Response.error().        *)
AdvicePost(url, try, push) ==
  /\ nextId <= MaxRequests
  /\ try \in TryOutcomes(url)
  /\ nextId' = nextId + 1
  /\ delivered' = [delivered EXCEPT ![nextId] = IF try.received THEN 1 ELSE 0]
  /\ IF try.net = "resolved"
       THEN /\ push = "stored"
            /\ lastPost' = LogEntry(url, try, LiveResponse(nextId, try.status))
            /\ fate' = [fate EXCEPT ![nextId] = "live"]
            /\ UNCHANGED <<adviceQueue, syncRegistered, requestsAddedDuringSync,
                           queuedOffline>>
       ELSE IF push = "stored"
         THEN /\ pushRequest(nextId, url)
              /\ lastPost' = LogEntry(url, try, QueuedResponse)
              /\ fate' = [fate EXCEPT ![nextId] = "queued"]
              /\ queuedOffline' = IF ~online /\ url = AdviceProxyUrl(PageOrigin)
                                    THEN queuedOffline \cup {nextId} ELSE queuedOffline
         ELSE /\ lastPost' = LogEntry(url, try, ErrorResponse)
              /\ fate' = [fate EXCEPT ![nextId] = "error"]
              /\ UNCHANGED <<adviceQueue, syncRegistered, requestsAddedDuringSync,
                             queuedOffline>>
  /\ UNCHANGED <<syncInProgress, replayPc, inflight, lastDrops, attempted, triggerTime,
                 envVars, cacheVars, uiVars>>

AdvicePostAny ==
  \E url \in AdviceUrls : \E try \in TryOutcomes(url) : \E push \in {"stored", "threw"} :
    /\ AdvicePost(url, try, push)
    /\ UNCHANGED routeVars

(* ---------------- background sync replay ---------------- *)
(* workbox-background-sync 6.5.4, Queue: constructed at custom-sw.js:55-57 *)
(* with the default onSync, replayRequests:                                *)
(*   while ((entry = await this.shiftRequest())) {                         *)
(*     try { await fetch(entry.request.clone()); }                         *)
(*     catch { await this.unshiftRequest(entry); throw ...; } }            *)
(* shiftRequest takes the oldest entry OUT of the store; when              *)
(* now - entry.timestamp > maxRetentionTime (minutes) it takes the next.   *)
(* slip: the retention compared in the wrong unit *)
ExpiredWrongUnit(entry, now) == now - entry.timestamp > maxRetentionTime * 60

Expired(entry, now) == now - entry.timestamp > maxRetentionTime

RECURSIVE DropExpired(_, _)
DropExpired(q, now) ==
  IF q = <<>> THEN <<>>
  ELSE IF Expired(Head(q), now) THEN DropExpired(Tail(q), now)
  ELSE q

Ids(q) == {q[i].id : i \in 1..Len(q)}

(* the 'sync' event listener the Queue registers *)
SyncEvent ==
  /\ syncRegistered
  /\ replayPc = "idle"
  /\ online
  /\ syncRegistered' = FALSE
  /\ syncInProgress' = TRUE
  /\ replayPc' = "loop"
  /\ attempted' = <<>>
  /\ triggerTime' = clock
  /\ UNCHANGED <<adviceQueue, requestsAddedDuringSync, inflight, nextId, delivered,
                 fate, lastPost, queuedOffline, lastDrops, envVars, cacheVars, pageVars>>

(* history: the entries shiftRequest discarded, and how old they were *)
LogDrops(gone) ==
  {[id |-> e.id,
    ageAtShift |-> clock - e.timestamp,
    ageAtTrigger |-> triggerTime - e.timestamp,
    attemptedNow |-> (\E k \in 1..Len(attempted) : attempted[k] = e.id)] : e \in gone}

FateAfterDrops(gone) ==
  [i \in RequestIds |-> IF \E e \in gone : e.id = i THEN "dropped" ELSE fate[i]]

Entries(q) == {q[i] : i \in 1..Len(q)}

(* shiftRequest returned an entry: it is fetched *)
ReplayShift ==
  /\ replayPc = "loop"
  /\ LET rest == DropExpired(adviceQueue, clock)
     IN /\ rest # <<>>
        /\ inflight' = Head(rest)
        /\ adviceQueue' = Tail(rest)
        /\ attempted' = Append(attempted, Head(rest).id)
        /\ lastDrops' = LogDrops(Entries(adviceQueue) \ Entries(rest))
        /\ fate' = FateAfterDrops(Entries(adviceQueue) \ Entries(rest))
  /\ replayPc' = "fetch"
  /\ UNCHANGED <<syncRegistered, syncInProgress, requestsAddedDuringSync, nextId,
                 delivered, lastPost, queuedOffline, triggerTime, envVars, cacheVars, pageVars>>

(* shiftRequest returned undefined: the loop ends, the sync succeeded *)
ReplayDone ==
  /\ replayPc = "loop"
  /\ DropExpired(adviceQueue, clock) = <<>>
  /\ lastDrops' = LogDrops(Entries(adviceQueue))
  /\ fate' = FateAfterDrops(Entries(adviceQueue))
  /\ adviceQueue' = <<>>
  /\ replayPc' = "idle"
  /\ syncRegistered' = (syncRegistered \/ requestsAddedDuringSync)
  /\ syncInProgress' = FALSE
  /\ requestsAddedDuringSync' = FALSE
  /\ attempted' = <<>>
  /\ triggerTime' = 0
  /\ UNCHANGED <<inflight, nextId, delivered, lastPost, queuedOffline, envVars, cacheVars,
                 pageVars>>

(* the replay fetch resolved (with whatever status): the entry is gone *)
ReplayFetchOk ==
  /\ replayPc = "fetch"
  /\ online
  /\ delivered' = [delivered EXCEPT ![inflight.id] = @ + 1]
  /\ fate' = [fate EXCEPT ![inflight.id] = "replayed"]
  /\ inflight' = None
  /\ replayPc' = "loop"
  /\ UNCHANGED <<adviceQueue, syncRegistered, syncInProgress, requestsAddedDuringSync,
                 nextId, lastPost, queuedOffline, lastDrops, attempted, triggerTime,
                 envVars, cacheVars, pageVars>>

(* slip: the entry of a failed replay is not put back *)
unshiftRequestForgotten(entry) == adviceQueue' = adviceQueue

(* Queue.unshiftRequest(entry): back to the front, timestamp kept *)
unshiftRequest(entry) == adviceQueue' = <<entry>> \o adviceQueue

(* The replay fetch threw: the entry is put back and replayRequests        *)
(* throws.  The rejected sync is fired again by the browser, or, on its    *)
(* last chance, registered again by the listener's finally block, so a     *)
(* sync stays pending.  received: the backend got the request although     *)
(* the fetch failed.                                                       *)
ReplayFetchFail(received) ==
  /\ replayPc = "fetch"
  /\ received => (online /\ delivered[inflight.id] + 1 < MaxDeliveries)
  /\ delivered' = [delivered EXCEPT ![inflight.id] = IF received THEN @ + 1 ELSE @]
  /\ unshiftRequest(inflight)
  /\ inflight' = None
  /\ replayPc' = "idle"
  /\ syncRegistered' = TRUE
  /\ syncInProgress' = FALSE
  /\ requestsAddedDuringSync' = FALSE
  /\ attempted' = <<>>
  /\ triggerTime' = 0
  /\ UNCHANGED <<nextId, fate, lastPost, queuedOffline, lastDrops, envVars, cacheVars, pageVars>>

ReplayFetchFailAny == \E received \in BOOLEAN : ReplayFetchFail(received)


(* ---------------- the 'api-data' cache ---------------- *)
(* A data URL is [origin, path, query]; the query is a number: the days of *)
(* a market query, the district of a weather query (0 is Kanpur).          *)
DataUrl(origin, route, q) == [origin |-> origin, path |-> <<route>>, query |-> q]

(* custom-sw.js:109-113, for apiUrl = api *)
datasets(api) == {DataUrl(api, "weather", 0), DataUrl(api, "market", 7),
                  DataUrl(api, "advisories", 0)}

(* GETs the pages make that the data route matches: the prices page's      *)
(* market query (pages/prices.js:38) and the weather of the default        *)
(* district.                                                               *)
GetUrls == {DataUrl(PageApi, "market", 30), DataUrl(PageApi, "weather", 0)}
FreshUrl(k) == DataUrl(PageApi, "weather", k)

(* The body the backend serves for a data URL at a given time; the data    *)
(* change with time, so a body is told by when it was served.              *)
Served(now) == now

(* slip: the lookup finds nothing *)
CacheMatchNothing(cache, url) == None

(* Cache.match: the entry stored under this URL, or None *)
CacheMatch(cache, url) ==
  IF \E e \in cache : e.url = url THEN CHOOSE e \in cache : e.url = url ELSE None

(* Cache.put: replaces the entry stored under this URL *)
CachePut(cache, url, body, now) ==
  {e \in cache : e.url # url} \cup
    {[kind |-> "entry", url |-> url, body |-> body, storedAt |-> now]}

CacheInit ==
  /\ apiData = {}
  /\ precachePc = "idle"
  /\ pending = {}
  /\ fetchOk = {}
  /\ fetchFailed = {}
  /\ precacheCount = 0
  /\ offlineReady = 0
  /\ lastGet = None
  /\ handledOnline = {}
  /\ storeOrder = <<>>
  /\ nextFresh = 1

(* the router's caches are empty when the worker is installed *)
RouteInit ==
  /\ staticResources = {}
  /\ images = {}
  /\ lastFetch = None
  /\ fetchCount = 0

(* VoiceChatBar before it is rendered: the useState defaults,              *)
(* components/VoiceChatBar.js:14-21                                        *)
VoiceInit ==
  /\ mounted = FALSE
  /\ hasSTT = FALSE
  /\ supported = FALSE
  /\ recording = FALSE
  /\ transcript = ""
  /\ error = ""
  /\ recognitions = {}
  /\ nextRecognition = 1
  /\ lastStt = None

RewriteInit == lastIssued = None

(* OfflineBanner as rendered: components/OfflineBanner.tsx:4-6 *)
BannerInit ==
  /\ syncing = FALSE
  /\ synced = FALSE
  /\ retryCount = 0
  /\ listeners = {}
  /\ timers = {}
  /\ answers = {}
  /\ bannerNow = 0
  /\ retryAt = 0
  /\ lastSyncEnd = None

(* the Ask page on a first visit: pages/ask.js:7-20, nothing in            *)
(* localStorage                                                            *)
AskInit ==
  /\ sessions = <<>>
  /\ currentSessionId = 0
  /\ loading = FALSE
  /\ asking = {}
  /\ stored = None
  /\ askClock = 1
  /\ deleted = {}
  /\ lastReply = None

SpeakInit ==
  /\ isSpeaking = FALSE
  /\ currentSpeakingMessageId = 0
  /\ utterances = {}
  /\ nextUtterance = 1

Init ==
  /\ EnvInit /\ QueueInit /\ CacheInit /\ RouteInit
  /\ VoiceInit /\ RewriteInit /\ BannerInit /\ AskInit /\ SpeakInit

(* ---------------- data GET route, custom-sw.js:30-52 ---------------- *)
(* Lines 37-42 call workbox.strategies.StaleWhileRevalidate({...}) without *)
(* new.  It is a class, so the call throws a TypeError before the strategy *)
(* looks anything up or fetches anything: the try block never returns and  *)
(* never touches the cache or the network.                                 *)
StrategyCall(cache, url) == [threw |-> TRUE, response |-> None, cache |-> cache]

(* slip: no fallback document *)
CatchHandlerErrorOnly(destination) == [kind |-> "error", body |-> 0, storedAt |-> 0]

(* router catch handler, custom-sw.js:130-135; /offline.html is taken to   *)
(* be in the precache next-pwa fills                                       *)
CatchHandler(destination) ==
  IF destination = "document"
    THEN [kind |-> "offline.html", body |-> 0, storedAt |-> 0]
    ELSE [kind |-> "error", body |-> 0, storedAt |-> 0]

(* ExpirationPlugin's age limit applied to an entry (line 40) *)
TooOld(entry, now) == now - entry.storedAt > maxAgeMinutes

(* slip: a failed request discards the entry it could not refresh *)
DataRouteDropsEntry(cache, url, destination) ==
  LET cached == CacheMatch(cache, url)
      left == IF online THEN cache ELSE {e \in cache : e.url # url}
  IN IF cached # None
       THEN [response |-> [kind |-> "cached", body |-> cached.body,
                           storedAt |-> cached.storedAt],
             cache |-> left]
       ELSE [response |-> CatchHandler(destination), cache |-> left]

(* lines 35-50: the response and the cache the handler leaves *)
DataRoute(cache, url, destination) ==
  LET r == StrategyCall(cache, url)
  IN IF ~r.threw THEN [response |-> r.response, cache |-> r.cache]
     ELSE LET cached == CacheMatch(cache, url)
          IN IF cached # None
               THEN [response |-> [kind |-> "cached", body |-> cached.body,
                                   storedAt |-> cached.storedAt],
                     cache |-> cache]
               ELSE [response |-> CatchHandler(destination), cache |-> cache]


DataGetHandler(url, destination) ==
  /\ LET r == DataRoute(apiData, url, destination)
     IN /\ apiData' = r.cache
        /\ lastGet' = [kind |-> "get", url |-> url, wasOnline |-> online,
                       served |-> Served(clock), destination |-> destination,
                       stale |-> (r.response.kind = "cached" /\ TooOld(r.response, clock)),
                       response |-> r.response]
  /\ handledOnline' = IF online THEN handledOnline \cup {url} ELSE handledOnline
  /\ UNCHANGED <<precachePc, pending, fetchOk, fetchFailed, precacheCount, offlineReady,
                 envVars, queueVars, uiVars>>

DataGet ==
  \E url \in GetUrls : \E destination \in {"", "document"} :
    /\ DataGetHandler(url, destination)
    /\ UNCHANGED <<nextFresh, storeOrder, routeVars>>

(* a GET, made while the backend is reachable, for a URL not requested     *)
(* before: the weather of the next district                                *)
DataGetFresh ==
  /\ nextFresh <= MaxFresh
  /\ online
  /\ DataGetHandler(FreshUrl(nextFresh), "")
  /\ nextFresh' = nextFresh + 1
  /\ storeOrder' = Append(storeOrder, FreshUrl(nextFresh))
  /\ UNCHANGED routeVars

(* ---------------- PRECACHE_LATEST_DATASETS, custom-sw.js:106-127 ---------------- *)
(* the message arrives; getApiUrl() at line 108 may throw, which ends the  *)
(* async listener there                                                    *)
PrecacheMessage ==
  /\ precachePc = "idle"
  /\ precacheCount < MaxPrecache
  /\ precacheCount' = precacheCount + 1
  /\ IF getApiUrl = "threw"
       THEN UNCHANGED <<precachePc, pending, fetchOk, fetchFailed>>
       ELSE /\ precachePc' = "fetching"
            /\ pending' = datasets(getApiUrl)
            /\ fetchOk' = {}
            /\ fetchFailed' = {}
  /\ UNCHANGED <<apiData, offlineReady, lastGet, handledOnline, storeOrder, nextFresh,
                 envVars, queueVars, pageVars>>

(* cache.add(url) resolved: the response was ok and is stored (line 117) *)
PrecacheStored(url) ==
  /\ precachePc = "fetching"
  /\ url \in pending
  /\ online
  /\ apiData' = CachePut(apiData, url, Served(clock), clock)
  /\ pending' = pending \ {url}
  /\ fetchOk' = fetchOk \cup {url}
  /\ UNCHANGED <<precachePc, fetchFailed, precacheCount, offlineReady, lastGet,
                 handledOnline, storeOrder, nextFresh, envVars, queueVars, pageVars>>

(* slip: no try/catch around cache.add, so one rejection rejects           *)
(* Promise.all and the listener ends without posting anything             *)
PrecacheFailedUncaught(url) ==
  /\ precachePc = "fetching"
  /\ url \in pending
  /\ pending' = {}
  /\ fetchFailed' = fetchFailed \cup {url}
  /\ precachePc' = "idle"
  /\ UNCHANGED <<apiData, fetchOk, precacheCount, offlineReady, lastGet,
                 handledOnline, storeOrder, nextFresh, envVars, queueVars, pageVars>>

(* cache.add(url) rejected (no network, or a response that is not ok); the *)
(* catch at line 118 swallows it                                           *)
PrecacheFailed(url) ==
  /\ precachePc = "fetching"
  /\ url \in pending
  /\ pending' = pending \ {url}
  /\ fetchFailed' = fetchFailed \cup {url}
  /\ UNCHANGED <<apiData, precachePc, fetchOk, precacheCount, offlineReady, lastGet,
                 handledOnline, storeOrder, nextFresh, envVars, queueVars, pageVars>>

(* Promise.all resolved: lines 121-125 post OFFLINE_READY to the clients *)
PrecacheBroadcast ==
  /\ precachePc = "fetching"
  /\ pending = {}
  /\ offlineReady' = offlineReady + 1
  /\ precachePc' = "idle"
  /\ UNCHANGED <<apiData, pending, fetchOk, fetchFailed, precacheCount, lastGet,
                 handledOnline, storeOrder, nextFresh, envVars, queueVars, pageVars>>

PrecacheStoredAny == \E url \in pending : PrecacheStored(url)
PrecacheFailedAny == \E url \in pending : PrecacheFailed(url)

(* ---------------- the router, custom-sw.js:11-103 and 129-135 ---------------- *)
(* A request is [method, destination, url]; a URL is [origin, path, query] *)
(* with the path a sequence of segments.                                   *)
Url(origin, path, q) == [origin |-> origin, path |-> path, query |-> q]
Request(method, destination, url) ==
  [method |-> method, destination |-> destination, url |-> url]

(* request.url as a string of tokens, the form the advice handler reads *)
Href(u) == <<u.origin>> \o u.path \o <<"">>

DataRoutes == {"weather", "market", "calendar", "advisories"}

(* the characters of a path segment, cut after a leading route name *)
Chunks(seg) == IF seg = "weatherX" THEN <<"weather", "X">> ELSE <<seg>>

(* /^\/(weather|market|calendar|advisories)$/ on url.pathname, line 33 *)
MatchesDataPath(path) ==
  /\ Len(path) = 1
  /\ \E r \in DataRoutes : Chunks(path[1]) = <<r>>

(* /^\/backend\/(weather|market|calendar|advisories)/ on url.pathname,     *)
(* line 34: nothing anchors the end of the match                           *)
MatchesBackendDataPath(path) ==
  /\ Len(path) >= 2
  /\ path[1] = "backend"
  /\ Chunks(path[2])[1] \in DataRoutes

(* url.pathname.endsWith('/advice'), line 73 *)
EndsWithAdvice(path) ==
  /\ Len(path) >= 1
  /\ LET last == Chunks(path[Len(path)]) IN last = <<"advice">>

(* the match callbacks of the four routes, lines 12, 20, 31-34, 71-73 *)
matchStatic(req) == req.destination \in {"style", "script", "font"}
matchImage(req) == req.destination = "image"
matchData(req) ==
  \/ req.method = "GET" /\ MatchesDataPath(req.url.path)
  \/ MatchesBackendDataPath(req.url.path)
matchAdvice(req) ==
  /\ req.method = "POST"
  /\ (req.url.path = <<"backend", "advice">> \/ EndsWithAdvice(req.url.path))

Matches(route, req) ==
  CASE route = "static" -> matchStatic(req)
    [] route = "images" -> matchImage(req)
    [] route = "data" -> matchData(req)
    [] route = "advice" -> matchAdvice(req)

(* slip: the data route registered ahead of the asset routes *)
RoutesDataFirst(method) ==
  IF method = "GET" THEN <<"data", "static", "images">>
  ELSE IF method = "POST" THEN <<"advice">>
  ELSE <<>>

(* registerRoute files a route under its method ('GET' when none is        *)
(* given), in the order of the calls                                       *)
Routes(method) ==
  IF method = "GET" THEN <<"static", "images", "data">>
  ELSE IF method = "POST" THEN <<"advice">>
  ELSE <<>>

(* Router.findMatchingRoute: the first route of the request's method whose *)
(* match callback returns something truthy                                 *)
FindMatchingRoute(req) ==
  LET rs == Routes(req.method)
      hits == {i \in 1..Len(rs) : Matches(rs[i], req)}
  IN IF hits = {} THEN "none"
     ELSE rs[CHOOSE i \in hits : \A j \in hits : i <= j]

(* new StaleWhileRevalidate({cacheName: 'static-resources'}).handle,       *)
(* lines 13-15: the cached response if there is one, else the network's;   *)
(* the network's response is stored whenever the fetch succeeds            *)
StaleWhileRevalidate(cache, url) ==
  [answer |-> IF url \in cache THEN "cached" ELSE IF online THEN "network" ELSE "threw",
   cache |-> IF online THEN cache \cup {url} ELSE cache]

(* new CacheFirst({cacheName: 'images', ...}).handle, lines 21-26: the     *)
(* network is asked only on a miss.  The 60 entries and 30 days of line 24 *)
(* are never reached by the requests and the clock of this model.          *)
CacheFirst(cache, url) ==
  [answer |-> IF url \in cache THEN "cached" ELSE IF online THEN "network" ELSE "threw",
   cache |-> IF url \notin cache /\ online THEN cache \cup {url} ELSE cache]

FetchLog(req, route, answer) ==
  [kind |-> "fetch", request |-> req, route |-> route, wasOnline |-> online,
   answer |-> answer]

(* what a handler that threw ends in: the catch handler's response *)
Caught(answer, destination) ==
  IF answer = "threw" THEN CatchHandler(destination).kind ELSE answer

PostAnswer(resp) ==
  IF resp = QueuedResponse THEN "queued"
  ELSE IF resp = ErrorResponse THEN "error"
  ELSE "network"

(* The requests of the model: what the pages load and ask for, and paths   *)
(* next to the data and advice routes.  A POST comes from fetch() or from  *)
(* a form, so its destination is '' or 'document'.                         *)
Requests ==
  {Request("GET", "style", Url(PageOrigin, <<"styles">>, 0)),
   Request("GET", "script", Url(PageOrigin, <<"backend", "weather">>, 0)),
   Request("GET", "image", Url(PageOrigin, <<"logo">>, 0)),
   Request("GET", "", DataUrl(PageApi, "market", 30)),
   Request("GET", "", Url(PageOrigin, <<"backend", "weather">>, 0)),
   Request("GET", "", Url(PageOrigin, <<"backend", "weatherX">>, 0)),
   Request("GET", "", Url(PageApi, <<"api", "weather">>, 0)),
   Request("GET", "document", Url(PageOrigin, <<"weather">>, 0)),
   Request("GET", "document", Url(PageOrigin, <<"prices">>, 0)),
   Request("GET", "", Url(PageOrigin, <<"data">>, 0)),
   Request("POST", "", Url(PageOrigin, <<"backend", "advice">>, 0)),
   Request("POST", "", Url(PageApi, <<"advice">>, 0)),
   Request("POST", "", Url(PageOrigin, <<"backend", "weather">>, 0)),
   Request("POST", "document", Url(PageOrigin, <<"prices">>, 0))}

(* Router.handleRequest for a fetch event: the matching route's handler,   *)
(* with the catch handler behind it; with no matching route (there is no   *)
(* default handler) the router does not respond and the browser makes the  *)
(* request itself.                                                         *)
Intercept(req) ==
  LET route == FindMatchingRoute(req)
  IN CASE route = "static" ->
            LET r == StaleWhileRevalidate(staticResources, req.url)
            IN /\ staticResources' = r.cache
               /\ lastFetch' = FetchLog(req, route, Caught(r.answer, req.destination))
               /\ UNCHANGED <<images, envVars, queueVars, cacheVars, uiVars>>
       [] route = "images" ->
            LET r == CacheFirst(images, req.url)
            IN /\ images' = r.cache
               /\ lastFetch' = FetchLog(req, route, Caught(r.answer, req.destination))
               /\ UNCHANGED <<staticResources, envVars, queueVars, cacheVars, uiVars>>
       [] route = "data" ->
            /\ DataGetHandler(req.url, req.destination)
            /\ lastFetch' = FetchLog(req, route, lastGet'.response.kind)
            /\ UNCHANGED <<nextFresh, storeOrder, staticResources, images>>
       [] route = "advice" ->
            \E try \in TryOutcomes(Href(req.url)) : \E push \in {"stored", "threw"} :
              /\ AdvicePost(Href(req.url), try, push)
              /\ lastFetch' = FetchLog(req, route, PostAnswer(lastPost'.response))
              /\ UNCHANGED <<staticResources, images>>
       [] route = "none" ->
            /\ lastFetch' = FetchLog(req, route, IF online THEN "network" ELSE "error")
            /\ UNCHANGED <<staticResources, images, envVars, queueVars, cacheVars,
                           uiVars>>

InterceptAny ==
  /\ fetchCount < MaxFetches
  /\ fetchCount' = fetchCount + 1
  /\ \E req \in Requests : Intercept(req)

(* ---------------- VoiceChatBar, components/VoiceChatBar.js ---------------- *)
(* SpeechRecognitionErrorEvent.error: some of its codes *)
ErrorCodes == {"not-allowed", "no-speech", "network"}
Texts == {"", "kab boyen"}

(* lines 13-37: the first render and the effect that looks for the         *)
(* recognition API in window                                               *)
Mount(stt) ==
  /\ ~mounted
  /\ mounted' = TRUE
  /\ hasSTT' = stt
  /\ supported' = stt
  /\ lastStt' = [kind |-> "mount", rec |-> 0, code |-> ""]
  /\ UNCHANGED <<recording, transcript, error, recognitions, nextRecognition,
                 workerVars, besidesVoice>>

(* lines 39-63 *)
startSTT ==
  /\ error' = ""
  /\ transcript' = ""
  /\ IF ~hasSTT
       THEN /\ lastStt' = [kind |-> "start", rec |-> 0, code |-> ""]
            /\ UNCHANGED <<recording, recognitions, nextRecognition>>
       ELSE /\ recognitions' = recognitions \cup {nextRecognition}
            /\ nextRecognition' = nextRecognition + 1
            /\ recording' = TRUE
            /\ lastStt' = [kind |-> "start", rec |-> nextRecognition, code |-> ""]

(* lines 65-68: stop() lets the recognition finish; its end event follows *)
stopSTT ==
  /\ recording' = FALSE
  /\ lastStt' = [kind |-> "stop", rec |-> nextRecognition - 1, code |-> ""]
  /\ UNCHANGED <<transcript, error, recognitions, nextRecognition>>

(* lines 123-134; the alert of the unsupported case changes no state *)
handleMicClick ==
  /\ mounted
  /\ IF supported
       THEN IF recording THEN stopSTT
            ELSE nextRecognition <= MaxRecognitions /\ startSTT
       ELSE /\ lastStt' = [kind |-> "alert", rec |-> 0, code |-> ""]
            /\ UNCHANGED <<recording, transcript, error, recognitions, nextRecognition>>
  /\ UNCHANGED <<mounted, hasSTT, supported, workerVars, besidesVoice>>

(* lines 48-54 *)
onresult(rec, t) ==
  /\ rec \in recognitions
  /\ transcript' = t
  /\ lastStt' = [kind |-> "result", rec |-> rec, code |-> ""]
  /\ UNCHANGED <<mounted, hasSTT, supported, recording, error, recognitions,
                 nextRecognition, workerVars, besidesVoice>>

(* slip: the error is shown but the recording state is left on *)
onerrorKeepsRecording(rec, code) ==
  /\ rec \in recognitions
  /\ error' = (IF code = "not-allowed" THEN "Permission denied" ELSE code)
  /\ lastStt' = [kind |-> "error", rec |-> rec, code |-> code]
  /\ UNCHANGED <<mounted, hasSTT, supported, recording, transcript, recognitions,
                 nextRecognition, workerVars, besidesVoice>>

(* lines 55-58 *)
onerror(rec, code) ==
  /\ rec \in recognitions
  /\ error' = (IF code = "not-allowed" THEN "Permission denied" ELSE code)
  /\ recording' = FALSE
  /\ lastStt' = [kind |-> "error", rec |-> rec, code |-> code]
  /\ UNCHANGED <<mounted, hasSTT, supported, transcript, recognitions,
                 nextRecognition, workerVars, besidesVoice>>

(* line 59; the recognition object reports nothing after its end *)
onend(rec) ==
  /\ rec \in recognitions
  /\ recording' = FALSE
  /\ recognitions' = recognitions \ {rec}
  /\ lastStt' = [kind |-> "end", rec |-> rec, code |-> ""]
  /\ UNCHANGED <<mounted, hasSTT, supported, transcript, error, nextRecognition,
                 workerVars, besidesVoice>>

(* line 152: typing into the text input *)
onChange(t) ==
  /\ mounted
  /\ transcript' = t
  /\ lastStt' = [kind |-> "change", rec |-> 0, code |-> ""]
  /\ UNCHANGED <<mounted, hasSTT, supported, recording, error, recognitions,
                 nextRecognition, workerVars, besidesVoice>>

(* lines 70-121, with no onSend prop (no caller passes one).  data and     *)
(* meta are declared inside the try block (lines 97-98): the assignment at *)
(* line 115 and the read at line 117 are outside their scope and throw a   *)
(* ReferenceError, so whatever the fetch does, none of the setters of      *)
(* lines 117-120 is reached.                                               *)
handleSend ==
  /\ mounted
  /\ transcript # ""
  /\ lastStt' = [kind |-> "send", rec |-> 0, code |-> ""]
  /\ UNCHANGED <<mounted, hasSTT, supported, recording, transcript, error, recognitions,
                 nextRecognition, workerVars, besidesVoice>>

(* lines 136-229: what is rendered *)
Placeholder ==
  IF supported /\ recording THEN "Listening..." ELSE "Type your message or use the mic..."
Rendered ==
  IF ~mounted THEN {}
  ELSE {"input", "mic", "send"}
         \cup (IF recording THEN {"recording"} ELSE {})
         \cup (IF error # "" THEN {"error"} ELSE {})

(* ---------------- the request the advice handler builds, custom-sw.js:76-88 ---------------- *)
(* The advice POSTs of the pages (pages/ask.js:464-474: fetch with a JSON  *)
(* body and the default credentials mode) and of callers that choose a     *)
(* credentials mode.                                                       *)
AdviceRequests ==
  {[url |-> url, method |-> "POST", headers |-> "Content-Type: application/json",
    body |-> body, credentials |-> credentials] :
     url \in AdviceUrls \cup {<<PageOrigin, "api", "advice", "">>},
     body \in {"question", "long question"},
     credentials \in {"same-origin", "include", "omit"}}

(* What body: event.request.body (line 85) gives new Request: the stream   *)
(* taken as the body, undefined where Request has no body attribute (the   *)
(* new request then has no body), or a TypeError where a stream body needs *)
(* the duplex option.                                                      *)
BodyOutcomes == {"stream", "undefined", "TypeError"}

(* lines 77-88; None when getApiUrl or new Request threw *)
modifiedRequest(req, bodyRead) ==
  LET requestUrl == RequestUrl(req.url)
  IN IF requestUrl = <<"threw">> \/ bodyRead = "TypeError" THEN None
     ELSE [kind |-> "request",
           url |-> requestUrl,
           method |-> req.method,
           headers |-> req.headers,
           body |-> IF bodyRead = "stream" THEN req.body ELSE "",
           mode |-> "cors",
           credentials |-> "include"]

BuildRequest(req, bodyRead) ==
  /\ lastIssued' = [kind |-> "built", request |-> req,
                    issued |-> modifiedRequest(req, bodyRead)]
  /\ UNCHANGED <<workerVars, besidesRewrite>>

(* ---------------- the Ask page's chat sessions, pages/ask.js:7-70, 290-338, 380-547 ---------------- *)
(* The sessions object of line 9 is a sequence of sessions in the order of *)
(* its keys: the ids are Date.now() strings, too large to be array         *)
(* indices, so Object.keys gives them in insertion order.  Times are       *)
(* readings of Date.now(); the clock has moved on by the next handler.     *)
(* Question texts are shorter than the 50 characters a title keeps.        *)
Undefined == "undefined"
NoAdvice == "Sorry, I could not process your question."
AskFailed == "Sorry, there was an error processing your question. Please try again."

SessionIds(ss) == {ss[i].id : i \in 1..Len(ss)}

(* prev[sessionId] *)
SessionOf(ss, id) == ss[CHOOSE i \in 1..Len(ss) : ss[i].id = id]

(* { ...prev, [session.id]: session }: a key that exists keeps its place *)
PutSession(ss, session) ==
  IF session.id \in SessionIds(ss)
    THEN [i \in 1..Len(ss) |-> IF ss[i].id = session.id THEN session ELSE ss[i]]
    ELSE Append(ss, session)

(* delete newSessions[sessionId] *)
RemoveSession(ss, id) ==
  LET Keep(session) == session.id # id
  IN SelectSeq(ss, Keep)

(* lines 291-297 and 389-395 *)
NewSession(id, title, messages, now) ==
  [id |-> id, title |-> title, messages |-> messages, timestamp |-> now]

(* JSON.stringify leaves out the properties whose value is undefined: a    *)
(* bot message built from an answer without a provider is written without  *)
(* that property.                                                          *)
StringifyMessage(m) ==
  IF "provider" \in DOMAIN m /\ m.provider = Undefined
    THEN [id |-> m.id, type |-> m.type, content |-> m.content,
          timestamp |-> m.timestamp, askedIn |-> m.askedIn]
    ELSE m

(* JSON.stringify(sessions), line 68 *)
Stringify(ss) ==
  [kind |-> "json",
   text |-> [i \in 1..Len(ss) |->
               [ss[i] EXCEPT !.messages =
                  [k \in 1..Len(ss[i].messages) |-> StringifyMessage(ss[i].messages[k])]]]]

(* lines 31-46: JSON.parse and the validation, which keeps every session   *)
(* the page itself wrote                                                   *)
Parse(item) == IF item = None THEN <<>> ELSE item.text

(* lines 50-56: the reduce keeps the first of the sessions with the        *)
(* latest timestamp                                                        *)
MostRecent(ss) ==
  LET latest == CHOOSE i \in 1..Len(ss) :
                  /\ \A j \in 1..Len(ss) : ss[j].timestamp <= ss[i].timestamp
                  /\ \A j \in 1..(i - 1) : ss[j].timestamp < ss[i].timestamp
  IN ss[latest].id

(* the save effect, lines 65-70, which runs after every change of sessions *)
Saved(ss, item) == IF Len(ss) > 0 THEN Stringify(ss) ELSE item

(* lines 290-309 *)
createNewSession ==
  /\ askClock < MaxAskClock
  /\ sessions' = PutSession(sessions, NewSession(askClock, "New Chat", <<>>, askClock))
  /\ currentSessionId' = askClock
  /\ stored' = Saved(sessions', stored)
  /\ askClock' = askClock + 1
  /\ UNCHANGED <<loading, asking, deleted, lastReply, workerVars, besidesAsk>>

(* lines 312-315, called for a session of the rendered list (line 641) *)
switchSession(sessionId) ==
  /\ sessionId \in SessionIds(sessions)
  /\ currentSessionId' = sessionId
  /\ UNCHANGED <<sessions, loading, asking, stored, askClock, deleted, lastReply,
                 workerVars, besidesAsk>>

(* slip: the current session is left as it is *)
afterDeleteKeepsCurrent(newSessions, sessionId) == currentSessionId

(* lines 326-334: the current session once sessionId is deleted *)
afterDelete(newSessions, sessionId) ==
  IF sessionId = currentSessionId
    THEN IF Len(newSessions) > 0 THEN newSessions[1].id ELSE 0
    ELSE currentSessionId

(* lines 318-338, called for a session of the rendered list (line 673) *)
deleteSession(sessionId) ==
  /\ sessionId \in SessionIds(sessions)
  /\ LET newSessions == RemoveSession(sessions, sessionId)
     IN /\ sessions' = newSessions
        /\ currentSessionId' = afterDelete(newSessions, sessionId)
        /\ stored' = Saved(newSessions, stored)
  /\ deleted' = deleted \cup {[id |-> sessionId,
                               wasCurrent |-> (sessionId = currentSessionId)]}
  /\ UNCHANGED <<loading, asking, askClock, lastReply, workerVars, besidesAsk>>

(* slip: a question is taken while another is in flight *)
AcceptsWhileLoading(questionText) == questionText # ""

(* line 382 *)
Accepts(questionText) == questionText # "" /\ ~loading

(* lines 417-450: the user message goes to sessionId, which is created if  *)
(* it is missing                                                           *)
addUserMessage(ss, sessionId, message, now) ==
  IF sessionId \notin SessionIds(ss)
    THEN PutSession(ss, NewSession(sessionId, message.content, <<message>>, now))
    ELSE LET session == SessionOf(ss, sessionId)
         IN PutSession(ss,
              [session EXCEPT !.messages = Append(@, message),
                              !.timestamp = now,
                              !.title = IF Len(session.messages) = 0
                                          THEN message.content ELSE @])

(* slip: the reply re-creates a session that is missing *)
addReplyWithFallback(ss, sessionId, message, now) ==
  addUserMessage(ss, sessionId, message, now)

(* lines 499-513 and 527-541: the reply goes to sessionId if it still      *)
(* exists                                                                  *)
addReply(ss, sessionId, message, now) ==
  IF sessionId \notin SessionIds(ss) THEN ss
  ELSE PutSession(ss, [SessionOf(ss, sessionId) EXCEPT !.messages = Append(@, message),
                                                       !.timestamp = now])

(* lines 380-452, up to the fetch; the messages carry the session that was *)
(* current when the question was asked, which the program does not keep    *)
handleAsk(questionText) ==
  IF ~Accepts(questionText) THEN UNCHANGED vars
  ELSE
    /\ askClock < MaxAskClock
    /\ LET sessionId == IF currentSessionId = 0 THEN askClock ELSE currentSessionId
           created == IF currentSessionId = 0
                        THEN PutSession(sessions,
                                        NewSession(sessionId, "New Chat", <<>>, askClock))
                        ELSE sessions
           userMessage == [id |-> askClock, type |-> "user", content |-> questionText,
                           timestamp |-> askClock, askedIn |-> sessionId]
       IN /\ sessions' = addUserMessage(created, sessionId, userMessage, askClock)
          /\ currentSessionId' = sessionId
          /\ asking' = asking \cup {[id |-> askClock, sessionId |-> sessionId]}
    /\ loading' = TRUE
    /\ stored' = Saved(sessions', stored)
    /\ askClock' = askClock + 1
    /\ UNCHANGED <<deleted, lastReply, workerVars, besidesAsk>>

(* what response.json() gives: an answer, with or without the provider's   *)
(* name, or a body without advice (the worker's 202 'queued' body)         *)
Replies == {[advice |-> "advice", provider |-> "gemini"],
            [advice |-> "advice", provider |-> Undefined],
            [advice |-> Undefined, provider |-> Undefined]}

(* lines 486-496 *)
botMessage(r, data, now) ==
  [id |-> now + 1, type |-> "bot",
   content |-> IF data.advice # Undefined THEN data.advice ELSE NoAdvice,
   timestamp |-> now, provider |-> data.provider, askedIn |-> r.sessionId]

(* lines 516-524 *)
errorMessage(r, now) ==
  [id |-> now + 1, type |-> "error", content |-> AskFailed, timestamp |-> now,
   askedIn |-> r.sessionId]

(* the rest of handleAsk once the fetch of request r has settled: the      *)
(* message is added and the finally block (544-546) ends the loading       *)
Settle(r, message) ==
  /\ r \in asking
  /\ sessions' = addReply(sessions, r.sessionId, message, askClock)
  /\ loading' = FALSE
  /\ asking' = asking \ {r}
  /\ stored' = Saved(sessions', stored)
  /\ askClock' = askClock + 1
  /\ lastReply' = [kind |-> "reply", request |-> r, message |-> message]
  /\ UNCHANGED <<currentSessionId, deleted, workerVars, besidesAsk>>

(* the fetch resolved with an ok response, lines 484-513 *)
AskAnswered(r, data) == Settle(r, botMessage(r, data, askClock))
(* the response was not ok: line 480 throws, lines 514-541 *)
AskNotOk(r) == Settle(r, errorMessage(r, askClock))
(* the fetch rejected, lines 514-541 *)
AskThrew(r) == Settle(r, errorMessage(r, askClock))

AskSettled ==
  \E r \in asking :
    \/ \E data \in Replies : AskAnswered(r, data)
    \/ AskNotOk(r)
    \/ AskThrew(r)

(* the page is loaded again: state starts from its defaults, the load      *)
(* effect (27-63) reads the storage, a request of the old page is gone     *)
Reload ==
  /\ sessions' = Parse(stored)
  /\ currentSessionId' = IF Len(Parse(stored)) > 0 THEN MostRecent(Parse(stored)) ELSE 0
  /\ loading' = FALSE
  /\ asking' = {}
  /\ stored' = Saved(sessions', stored)
  /\ UNCHANGED <<askClock, deleted, lastReply, workerVars, besidesAsk>>

(* ---------------- OfflineBanner, components/OfflineBanner.tsx ---------------- *)
(* Time is counted in steps of 4 seconds from the banner's first render.   *)
(* The banner is rendered while navigator.onLine is false (line 42).  A    *)
(* 'message' event of type OFFLINE_READY reaches the listeners on window   *)
(* when the environment dispatches one there; each is the answer to one    *)
(* PRECACHE_LATEST_DATASETS message the banner posted.                     *)
StepSeconds == 4
RetryTimeout == 8000 \div (1000 * StepSeconds)

(* lines 18-40; controller is navigator.serviceWorker.controller being set *)
handleRetry(controller) ==
  /\ ~online
  /\ ~syncing
  /\ retryCount < MaxRetries
  /\ retryCount' = retryCount + 1
  /\ synced' = FALSE
  /\ IF controller
       THEN /\ syncing' = TRUE
            /\ answers' = answers \cup {retryCount'}
            /\ listeners' = listeners \cup {retryCount'}
            /\ timers' = timers \cup {[retry |-> retryCount', due |-> bannerNow + RetryTimeout]}
            /\ retryAt' = bannerNow
       ELSE /\ syncing' = FALSE
            /\ UNCHANGED <<answers, listeners, timers, retryAt>>
  /\ UNCHANGED <<bannerNow, lastSyncEnd, workerVars, besidesBanner>>

(* lines 24-30: an OFFLINE_READY event, the answer to retry r, is          *)
(* dispatched on window; every handler still registered runs               *)
OfflineReadyArrives(r) ==
  /\ r \in answers
  /\ answers' = answers \ {r}
  /\ IF listeners # {}
       THEN /\ syncing' = FALSE
            /\ synced' = TRUE
            /\ listeners' = {}
            /\ lastSyncEnd' = [kind |-> "message", retry |-> r, at |-> bannerNow]
       ELSE UNCHANGED <<syncing, synced, listeners, lastSyncEnd>>
  /\ UNCHANGED <<retryCount, timers, bannerNow, retryAt, workerVars, besidesBanner>>

(* lines 32-35: the timeout of a retry runs; nothing ever clears it *)
TimerFires(t) ==
  /\ t \in timers
  /\ t.due <= bannerNow
  /\ timers' = timers \ {t}
  /\ syncing' = FALSE
  /\ listeners' = listeners \ {t.retry}
  /\ lastSyncEnd' = [kind |-> "timer", retry |-> t.retry, at |-> bannerNow]
  /\ UNCHANGED <<synced, retryCount, answers, bannerNow, retryAt, workerVars, besidesBanner>>

(* four seconds pass; a timer that is due runs before time moves on *)
BannerTick ==
  /\ bannerNow < MaxBannerTime
  /\ \A t \in timers : t.due > bannerNow
  /\ bannerNow' = bannerNow + 1
  /\ UNCHANGED <<syncing, synced, retryCount, listeners, timers, answers, retryAt,
                 lastSyncEnd, workerVars, besidesBanner>>

(* ---------------- reading a reply aloud, pages/ask.js:176-230 and 762-794 ---------------- *)
(* utterances holds what was given to speechSynthesis.speak and has not    *)
(* reported its last event: pending (queued), speaking, or cancelled (its  *)
(* end or error event is still to be dispatched).  The handlers of an      *)
(* utterance run when the browser dispatches its events, in no fixed order *)
(* against the start of a later utterance.                                 *)
SpokenMessages == {1, 2}

(* speechSynthesis.cancel(): nothing of the queue is spoken any more *)
cancel(us) == {[u EXCEPT !.state = "cancelled"] : u \in us}

(* lines 177-221, called by the button of a message that is not the one    *)
(* marked as spoken (lines 781-787)                                        *)
speakText(messageId) ==
  /\ messageId # currentSpeakingMessageId
  /\ nextUtterance <= MaxUtterances
  /\ utterances' = cancel(utterances) \cup
                     {[id |-> nextUtterance, message |-> messageId, state |-> "pending"]}
  /\ nextUtterance' = nextUtterance + 1
  /\ UNCHANGED <<isSpeaking, currentSpeakingMessageId, workerVars, besidesSpeak>>

(* lines 224-230, called by the button of the message marked as spoken *)
stopSpeaking ==
  /\ currentSpeakingMessageId # 0
  /\ utterances' = cancel(utterances)
  /\ isSpeaking' = FALSE
  /\ currentSpeakingMessageId' = 0
  /\ UNCHANGED <<nextUtterance, workerVars, besidesSpeak>>

(* utterance.onstart, lines 202-205: the synthesizer begins the pending    *)
(* utterance; it speaks one utterance at a time                            *)
utteranceStart(u) ==
  /\ u \in utterances
  /\ u.state = "pending"
  /\ \A v \in utterances : v.state # "speaking"
  /\ utterances' = (utterances \ {u}) \cup {[u EXCEPT !.state = "speaking"]}
  /\ isSpeaking' = TRUE
  /\ currentSpeakingMessageId' = u.message
  /\ UNCHANGED <<nextUtterance, workerVars, besidesSpeak>>

(* utterance.onend, lines 207-210: the utterance was spoken to its end, or *)
(* a cancelled one reports that it has ended                               *)
utteranceEnd(u) ==
  /\ u \in utterances
  /\ u.state \in {"speaking", "cancelled"}
  /\ utterances' = utterances \ {u}
  /\ isSpeaking' = FALSE
  /\ currentSpeakingMessageId' = 0
  /\ UNCHANGED <<nextUtterance, workerVars, besidesSpeak>>

(* utterance.onerror, lines 212-216: synthesis failed, or a cancelled      *)
(* utterance reports 'canceled' or 'interrupted'                           *)
utteranceError(u) ==
  /\ u \in utterances
  /\ utterances' = utterances \ {u}
  /\ isSpeaking' = FALSE
  /\ currentSpeakingMessageId' = 0
  /\ UNCHANGED <<nextUtterance, workerVars, besidesSpeak>>

(* ---------------- specifications ---------------- *)
QueueNext ==
  \/ Tick
  \/ NetworkDown
  \/ NetworkUp
  \/ AdvicePostAny
  \/ SyncEvent
  \/ ReplayShift
  \/ ReplayDone
  \/ ReplayFetchOk
  \/ ReplayFetchFailAny

CacheNext ==
  \/ Tick
  \/ NetworkDown
  \/ NetworkUp
  \/ DataGet
  \/ PrecacheMessage
  \/ PrecacheStoredAny
  \/ PrecacheFailedAny
  \/ PrecacheBroadcast

EvictNext ==
  \/ Tick
  \/ NetworkDown
  \/ NetworkUp
  \/ DataGetFresh

(* the prefetch alone *)
PrecacheNext ==
  \/ Tick
  \/ NetworkDown
  \/ NetworkUp
  \/ PrecacheMessage
  \/ PrecacheStoredAny
  \/ PrecacheFailedAny
  \/ PrecacheBroadcast

(* the router; the network comes and goes between requests *)
RouteNext ==
  \/ NetworkDown
  \/ NetworkUp
  \/ InterceptAny

RewriteNext ==
  \E req \in AdviceRequests : \E bodyRead \in BodyOutcomes : BuildRequest(req, bodyRead)

AskNext ==
  \/ createNewSession
  \/ \E id \in SessionIds(sessions) : switchSession(id)
  \/ \E id \in SessionIds(sessions) : deleteSession(id)
  \/ \E text \in Texts : handleAsk(text)
  \/ AskSettled

AskStoreNext == AskNext \/ Reload

BannerNext ==
  \/ \E controller \in BOOLEAN : handleRetry(controller)
  \/ \E r \in answers : OfflineReadyArrives(r)
  \/ \E t \in timers : TimerFires(t)
  \/ BannerTick

SpeakNext ==
  \/ \E messageId \in SpokenMessages : speakText(messageId)
  \/ stopSpeaking
  \/ \E u \in utterances : utteranceStart(u)
  \/ \E u \in utterances : utteranceEnd(u)
  \/ \E u \in utterances : utteranceError(u)

VoiceNext ==
  \/ \E stt \in BOOLEAN : Mount(stt)
  \/ handleMicClick
  \/ \E rec \in recognitions : \E t \in Texts : onresult(rec, t)
  \/ \E rec \in recognitions : \E code \in ErrorCodes : onerror(rec, code)
  \/ \E rec \in recognitions : onend(rec)
  \/ \E t \in Texts : onChange(t)
  \/ handleSend

Next ==
  \/ QueueNext \/ CacheNext \/ EvictNext \/ RouteNext \/ VoiceNext \/ RewriteNext
  \/ AskStoreNext \/ BannerNext \/ SpeakNext

SpecQueue == Init /\ [][QueueNext]_vars
SpecCache == Init /\ [][CacheNext]_vars
SpecEvict == Init /\ [][EvictNext]_vars
SpecRoute == Init /\ [][RouteNext]_vars
SpecRewrite == Init /\ [][RewriteNext]_vars
(* the component on the development host, the network up *)
(* The Ask page on localhost with the backend up.  The fetch of handleAsk  *)
(* settles: it resolves or rejects, and the code after the await then runs *)
(* on the page's event loop.                                               *)
(* the banner is on the page: the network is down *)
BannerStart == Init /\ hostname = "localhost" /\ ~online
SpecBanner == BannerStart /\ [][BannerNext]_vars

AskStart == Init /\ hostname = "localhost" /\ online
SpecAsk == AskStart /\ [][AskNext]_vars /\ WF_vars(AskSettled)
SpecAskStore == AskStart /\ [][AskStoreNext]_vars
SpecSpeak == AskStart /\ [][SpeakNext]_vars

VoiceStart == Init /\ hostname = "localhost" /\ online
SpecVoice == VoiceStart /\ [][VoiceNext]_vars
Spec == Init /\ [][Next]_vars

(* The prefetch with every cache.add settling (a fetch that fails rejects  *)
(* it) and the continuation after Promise.all being run by the event loop. *)
SpecPrecacheLive ==
  /\ Init
  /\ [][PrecacheNext]_vars
  /\ WF_vars(PrecacheStoredAny \/ PrecacheFailedAny)
  /\ WF_vars(PrecacheBroadcast)


(* ======================= claims ======================= *)
RetentionMinutes == 24 * 60
FullQueue == (IF inflight = None THEN <<>> ELSE <<inflight>>) \o adviceQueue
WasEnqueued(i) == fate[i] \in {"queued", "replayed", "dropped"}
Gone(i) == WasEnqueued(i) /\ i \notin Ids(FullQueue)
Ascending(q) == \A i, j \in 1..Len(q) : i < j => q[i].id < q[j].id
Increasing(ids) == \A i, j \in 1..Len(ids) : i < j => ids[i] < ids[j]

(* C1: every advice POST whose network call throws is answered with the   *)
(* 202 queued acknowledgement and grows the retry queue by exactly one.    *)
(* Stated as the claim has it; the code breaks it when pushRequest rejects *)
(* (see C2).                                                               *)
C1_QueuedOnThrow ==
  [][(lastPost' # lastPost /\ lastPost'.net = "threw")
       => (/\ lastPost'.response = QueuedResponse
           /\ Len(adviceQueue') = Len(adviceQueue) + 1)]_vars

(* C2: an advice POST always ends with the live response or the 202       *)
(* acknowledgement; no failure (network, rewrite, enqueue) reaches the     *)
(* caller as an error.  Stated as the claim has it.                        *)
C2_NeverAnError ==
  lastPost # None =>
    \/ lastPost.response = QueuedResponse
    \/ (lastPost.net = "resolved" /\ lastPost.response.status \in {200, 500})

(* C3: a GET for a data URL made with the network down returns the cached  *)
(* body when an earlier GET for that URL went through the worker with the  *)
(* backend reachable.  Stated as the claim has it.                         *)
C3_CachedAfterOnlineGet ==
  (lastGet # None /\ ~lastGet.wasOnline /\ lastGet.url \in handledOnline)
    => lastGet.response.kind = "cached"

(* C4: once the data route has handled a GET for U with the backend        *)
(* answering, 'api-data' holds an entry for U whose body is that answer.   *)
(* Stated as the claim has it.                                             *)
C4_StoredAfterFetch ==
  [][(lastGet' # lastGet /\ lastGet'.wasOnline)
       => (/\ CacheMatch(apiData', lastGet'.url) # None
           /\ CacheMatch(apiData', lastGet'.url).body = lastGet'.served)]_vars

(* C5, as claimed: a /backend/advice POST queued with the network down is  *)
(* delivered exactly once: never twice, and once it has left the queue it  *)
(* has been delivered.                                                     *)
C5_ExactlyOnce ==
  \A i \in queuedOffline :
    /\ delivered[i] <= 1
    /\ Gone(i) => delivered[i] = 1

(* C5, amended: such a request leaves the queue only after a replay fetch  *)
(* of it resolved (the backend has then received it at least once,         *)
(* possibly more often) or by being dropped as expired; until then it      *)
(* stays queued.                                                           *)
C5_DeliveredOrExpired ==
  \A i \in queuedOffline :
    /\ Gone(i) => \/ (fate[i] = "replayed" /\ delivered[i] >= 1)
                  \/ fate[i] = "dropped"
    /\ ~Gone(i) => fate[i] = "queued"

C5_Witness ==
  \E i \in queuedOffline : Gone(i) /\ fate[i] = "replayed" /\ delivered[i] = 1 /\ online

(* C6, as claimed: an entry leaves the queue only after its own replay     *)
(* succeeded, and the queue keeps the enqueue order.                       *)
C6_LeavesOnlyReplayed ==
  /\ Ascending(FullQueue)
  /\ \A i \in RequestIds : Gone(i) => fate[i] = "replayed"

(* C6, amended: a replay fetches the entries in enqueue order; an entry    *)
(* leaves the queue for good only after its own replay fetch resolved or,  *)
(* unreplayed, because it outlived the retention time; a failed replay     *)
(* fetch puts the entry back in front, so that it and all later entries    *)
(* stay queued in the same order.                                          *)
C6_FifoReplay ==
  [][/\ Ascending(FullQueue')
     /\ Increasing(attempted')
     /\ \A k \in 1..Len(attempted') : \A e \in Entries(adviceQueue') : attempted'[k] < e.id
     /\ \A i \in RequestIds : Gone(i)' => fate'[i] \in {"replayed", "dropped"}
     /\ (replayPc = "fetch" /\ replayPc' = "idle")
          => adviceQueue' = <<inflight>> \o adviceQueue]_vars

C6_Witness ==
  /\ replayPc = "idle"
  /\ Len(adviceQueue) = 2
  /\ adviceQueue[1].url = AdviceProxyUrl(PageOrigin)
  /\ delivered[adviceQueue[1].id] = 1
  /\ fate[adviceQueue[1].id] = "queued"
  /\ syncRegistered

(* C7, as claimed: a request enqueued less than 24 hours before the replay *)
(* trigger is never dropped unreplayed (and one enqueued more than 24      *)
(* hours before it is dropped without a fetch).                            *)
C7_DroppedOnlyIfOldAtTrigger ==
  \A d \in lastDrops : d.ageAtTrigger >= RetentionMinutes /\ ~d.attemptedNow

(* C7, amended: the age is taken when the replay loop reaches the entry.   *)
(* An entry more than 24 hours old at that moment is removed without a     *)
(* fetch, one that is at most 24 hours old then is fetched, and when a     *)
(* replay ends no entry that was more than 24 hours old at its trigger is  *)
(* left in the queue.                                                      *)
C7_DroppedIffOldAtShift ==
  [][/\ \A d \in lastDrops' : d.ageAtShift > RetentionMinutes /\ ~d.attemptedNow
     /\ (replayPc = "loop" /\ replayPc' = "fetch")
          => (/\ clock - inflight'.timestamp <= RetentionMinutes
              /\ \A e \in Entries(adviceQueue) \ Entries(FullQueue') :
                   clock - e.timestamp > RetentionMinutes)
     /\ (replayPc # "idle" /\ replayPc' = "idle")
          => \A e \in Entries(adviceQueue') :
               triggerTime - e.timestamp <= RetentionMinutes]_vars

C7_Witness ==
  /\ \E d \in lastDrops : d.ageAtShift > RetentionMinutes /\ d.ageAtTrigger > RetentionMinutes
  /\ replayPc = "fetch"

(* C8, as claimed: once more than maxEntries distinct URLs have gone       *)
(* through the data route with the backend answering, 'api-data' holds     *)
(* exactly the maxEntries most recent of them.                             *)
C8_KeepsNewestThirty ==
  Len(storeOrder) > maxEntries =>
    /\ Cardinality(apiData) = maxEntries
    /\ {e.url : e \in apiData} =
         {storeOrder[i] : i \in (Len(storeOrder) - maxEntries + 1)..Len(storeOrder)}

(* C9, as claimed: no 'api-data' entry older than the partition's max-age  *)
(* is returned to a caller.                                                *)
C9_NoStaleResponse == lastGet # None => ~lastGet.stale

(* C10: a prefetch that got to fetching its manifest ends only by posting  *)
(* OFFLINE_READY, whichever of its fetches failed, and every manifest URL  *)
(* whose fetch succeeded is in 'api-data'.                                 *)
FetchRuns == IF getApiUrl = "threw" THEN 0 ELSE precacheCount
C11_AlwaysAnswered ==
  /\ \A n \in 1..MaxPrecache : (precacheCount >= n) ~> (offlineReady >= n)
  /\ [][offlineReady' > offlineReady => pending = {}]_vars

(* C12, as claimed: once a prefetch has completed with the backend         *)
(* reachable (every manifest URL fetched and stored, OFFLINE_READY         *)
(* posted), a data request a page makes with the network down is answered  *)
(* from the cache.                                                         *)
C12_OfflineAfterDownload ==
  [][(/\ lastGet' # lastGet
      /\ ~online
      /\ precachePc = "idle"
      /\ offlineReady >= 1
      /\ fetchOk = datasets(getApiUrl))
       => lastGet'.response.kind = "cached"]_vars

(* the rules of the routing table as the specification words them *)
RuleStatic(req) == req.destination \in {"style", "script", "font"}
RuleImage(req) == req.destination = "image"
RuleData(req) == req.method = "GET" /\ matchData(req)
RuleAdvice(req) == req.method = "POST" /\ matchAdvice(req)
FirstRule(req) ==
  IF RuleStatic(req) THEN "static"
  ELSE IF RuleImage(req) THEN "images"
  ELSE IF RuleData(req) THEN "data"
  ELSE IF RuleAdvice(req) THEN "advice"
  ELSE "none"

(* C13: every intercepted request is handled by exactly one policy, the    *)
(* first whose rule matches in the order static asset, image, data GET,    *)
(* advice POST, or by none; handling it changes no partition but that      *)
(* policy's own, so a request of destination 'document' that is not a data *)
(* request never changes 'api-data'.                                       *)
C13_OnePolicyInOrder ==
  [][lastFetch' # lastFetch =>
       /\ lastFetch'.route = FirstRule(lastFetch'.request)
       /\ lastFetch'.route # "static" => staticResources' = staticResources
       /\ lastFetch'.route # "images" => images' = images
       /\ lastFetch'.route # "data" => apiData' = apiData /\ lastGet' = lastGet
       /\ lastFetch'.route # "advice" => adviceQueue' = adviceQueue /\ lastPost' = lastPost
       /\ (lastFetch'.request.destination = "document" /\ ~RuleData(lastFetch'.request))
            => apiData' = apiData]_vars

C13_Witness ==
  /\ lastFetch # None
  /\ lastFetch.route = "static"
  /\ RuleData(lastFetch.request)
  /\ lastFetch.request.url \in staticResources
  /\ apiData = {}

(* C14, as claimed: among the requests no asset rule takes, the            *)
(* read-through route handles exactly the GETs whose path is, or ends      *)
(* with, /weather, /market, /calendar or /advisories.                      *)
ClaimedDataPath(path) == Len(path) >= 1 /\ path[Len(path)] \in DataRoutes
C14_ReadThroughIff ==
  (lastFetch # None /\ lastFetch.request.destination \in {"", "document"}) =>
    (lastFetch.route = "data" <=>
       (lastFetch.request.method = "GET" /\ ClaimedDataPath(lastFetch.request.url.path)))

(* C15, as claimed: a request no route matches whose live fetch fails is   *)
(* answered with /offline.html when its destination is 'document', and     *)
(* with a network error otherwise.                                         *)
C15_OfflineFallback ==
  (lastFetch # None /\ lastFetch.route = "none" /\ ~lastFetch.wasOnline) =>
    lastFetch.answer = (IF lastFetch.request.destination = "document"
                          THEN "offline.html" ELSE "error")

(* C16: whenever a started recognition reports an error, VoiceChatBar      *)
(* leaves the recording state and shows an error, 'Permission denied' for  *)
(* the code 'not-allowed'; the text input is rendered whether or not       *)
(* speech recognition is supported, with the typing placeholder when it is *)
(* not.                                                                    *)
C16_SttErrorShown ==
  [][/\ (lastStt'.kind = "error" /\ (lastStt' # lastStt \/ recording))
          => (/\ recording' = FALSE
              /\ error' # ""
              /\ "error" \in Rendered'
              /\ "recording" \notin Rendered'
              /\ lastStt'.code = "not-allowed" => error' = "Permission denied")
     /\ mounted' => "input" \in Rendered'
     /\ (mounted' /\ ~supported') => Placeholder' = "Type your message or use the mic..."]_vars

C16_Witness ==
  /\ lastStt.kind = "error"
  /\ lastStt.code = "not-allowed"
  /\ hasSTT
  /\ error = "Permission denied"
  /\ ~recording
  /\ lastStt.rec \in recognitions

(* C17: a GET the read-through route handles for a URL that has a cached   *)
(* entry is answered with that entry by the handler itself, network up or  *)
(* down: the answer waits for no fetch.                                    *)
C17_CachedWithoutNetwork ==
  [][lastGet' # lastGet =>
       \A e \in apiData :
         e.url = lastGet'.url =>
           /\ lastGet'.response.kind = "cached"
           /\ lastGet'.response.body = e.body
           /\ lastGet'.response.storedAt = e.storedAt]_vars

C17_Witness ==
  /\ lastGet # None
  /\ ~lastGet.wasOnline
  /\ lastGet.response.kind = "cached"
  /\ \E e \in apiData : e.url = lastGet.url /\ e.body = lastGet.response.body

(* C18: a read-through GET handled while the network cannot be reached     *)
(* leaves 'api-data' exactly as it was: nothing added, overwritten or      *)
(* evicted.                                                                *)
C18_FailedGetLeavesCache ==
  [][(lastGet' # lastGet /\ ~online) => apiData' = apiData]_vars

C18_Witness ==
  /\ lastGet # None
  /\ ~lastGet.wasOnline
  /\ \E e \in apiData : e.url = lastGet.url
  /\ \E e \in apiData : e.url # lastGet.url

C20_LiveResponseUnchanged ==
  [][/\ (lastPost' # lastPost /\ lastPost'.net = "resolved")
          => (/\ lastPost'.response.status = lastPost'.netStatus
              /\ lastPost'.response.body.queued = FALSE
              /\ adviceQueue' = adviceQueue
              /\ syncRegistered' = syncRegistered)
     /\ (Ids(FullQueue') \ Ids(FullQueue) # {})
          => (lastPost' # lastPost /\ lastPost'.net = "threw")]_vars

C20_Witness ==
  /\ lastPost # None
  /\ lastPost.net = "resolved"
  /\ lastPost.netStatus = 500
  /\ lastPost.response.status = 500
  /\ fate[lastPost.id] = "live"
  /\ lastPost.id \notin Ids(FullQueue)

(* C21, as claimed: the request the advice handler issues has the method,  *)
(* headers, body and credentials mode of the intercepted request.          *)
C21_RequestPreserved ==
  (lastIssued # None /\ lastIssued.issued # None) =>
    /\ lastIssued.issued.method = lastIssued.request.method
    /\ lastIssued.issued.headers = lastIssued.request.headers
    /\ lastIssued.issued.body = lastIssued.request.body
    /\ lastIssued.issued.credentials = lastIssued.request.credentials

(* C22, as claimed: the request issued for a POST to /backend/advice       *)
(* targets /advice on the backend origin of the worker's host, and a POST  *)
(* without the prefix keeps its URL.                                       *)
BackendOrigin == IF hostname = "localhost" THEN LocalApi ELSE ProdApi
C22_TargetsBackend ==
  (lastIssued # None /\ lastIssued.issued # None) =>
    lastIssued.issued.url =
      (IF lastIssued.request.url = AdviceProxyUrl(PageOrigin)
         THEN AdviceDirectUrl(BackendOrigin)
         ELSE lastIssued.request.url)

(* C23, as claimed: of several read-through requests for one URL, made     *)
(* with the backend answering, the last to finish leaves its body as the   *)
(* entry for that URL: the entry is never absent after it, and never a     *)
(* body other than the one the last write stored.  The handler has no      *)
(* await before it fails, so the requests are handled one after another.   *)
C23_LastWriteWins ==
  [][(/\ lastGet' # lastGet
      /\ lastGet'.wasOnline
      /\ lastGet'.url \in handledOnline)
       => (/\ \E e \in apiData' : e.url = lastGet'.url
           /\ \A e \in apiData' : e.url = lastGet'.url => e.body = lastGet'.served)]_vars

(* C24, as claimed: 'api-data' never holds more than maxEntries entries,   *)
(* and what the prefetch wrote falls under the same limits: once the data  *)
(* route has handled a request, no entry older than the max-age is left.   *)
C24_LimitsHoldForPrefetch ==
  /\ [](Cardinality(apiData) <= maxEntries)
  /\ [][lastGet' # lastGet => \A e \in apiData' : ~TooOld(e, clock)]_vars

(* the sessions of the Ask page, and the ids deleteSession was called for *)
AllSessions == {sessions[i] : i \in 1..Len(sessions)}
DeletedIds == {d.id : d \in deleted}
MessagesOf(ss, id) == IF id \in SessionIds(ss) THEN SessionOf(ss, id).messages ELSE <<>>

(* C25: the user message and the reply of a question go to the session     *)
(* that was current when it was asked, and to no other, whatever the user  *)
(* switches, creates or deletes in between; the reply for a session that   *)
(* was deleted meanwhile changes nothing, and no deleted session is there  *)
(* again.                                                                  *)
C25_ReplyStaysInItsSession ==
  /\ [](\A s \in AllSessions :
          \A k \in 1..Len(s.messages) : s.messages[k].askedIn = s.id)
  /\ [](SessionIds(sessions) \cap DeletedIds = {})
  /\ [][\A r \in asking' \ asking :
          /\ currentSessionId # 0 => r.sessionId = currentSessionId
          /\ r.sessionId = currentSessionId'
          /\ LET after == MessagesOf(sessions', r.sessionId)
             IN /\ Len(after) = Len(MessagesOf(sessions, r.sessionId)) + 1
                /\ after[Len(after)].type = "user"
                /\ after[Len(after)].id = r.id]_vars
  /\ [][\A r \in asking \ asking' :
          IF r.sessionId \in SessionIds(sessions)
            THEN /\ MessagesOf(sessions', r.sessionId) =
                      Append(MessagesOf(sessions, r.sessionId), lastReply'.message)
                 /\ lastReply'.message.type \in {"bot", "error"}
                 /\ \A id \in SessionIds(sessions) \ {r.sessionId} :
                      MessagesOf(sessions', id) = MessagesOf(sessions, id)
                 /\ SessionIds(sessions') = SessionIds(sessions)
            ELSE sessions' = sessions]_vars

(* the reply of a question whose session was deleted while it was in       *)
(* flight has arrived, with another session on the page                    *)
C25_Witness ==
  /\ lastReply # None
  /\ lastReply.request.sessionId \in DeletedIds
  /\ asking = {}
  /\ Len(sessions) > 0

(* C26: at most one advice request of the page is in flight and loading    *)
(* tells whether one is; handleAsk starts none while loading; loading      *)
(* returns to false after every accepted request, however its fetch ends.  *)
C26_OneRequestAtATime ==
  /\ [](Cardinality(asking) <= 1)
  /\ [](loading <=> asking # {})
  /\ [][loading => asking' \subseteq asking]_vars
  /\ loading ~> ~loading

(* a request failed and loading is false again *)
C26_Witness ==
  /\ lastReply # None
  /\ lastReply.message.type = "error"
  /\ ~loading
  /\ lastReply.request.sessionId \in SessionIds(sessions)

(* C27: currentSessionId is null or the id of a session of the map;        *)
(* deleting the current session selects a remaining one, null only when    *)
(* none remains.                                                           *)
C27_CurrentSessionExists ==
  /\ [](currentSessionId = 0 \/ currentSessionId \in SessionIds(sessions))
  /\ [][(currentSessionId # 0 /\ currentSessionId \notin SessionIds(sessions'))
          => IF Len(sessions') > 0
               THEN currentSessionId' \in SessionIds(sessions')
               ELSE currentSessionId' = 0]_vars

(* the current session was deleted and an older one is current *)
C27_Witness ==
  \E d \in deleted :
    /\ d.wasCurrent
    /\ currentSessionId # 0
    /\ currentSessionId < d.id

(* C28, as claimed: what localStorage holds is the sessions map, and a     *)
(* session that was deleted is never on the page again, reloads included.  *)
C28_StorageMirrorsSessions ==
  /\ (stored = None /\ sessions = <<>>) \/ stored = Stringify(sessions)
  /\ SessionIds(sessions) \cap DeletedIds = {}

C30_SpeakingStateMatches ==
  \A u \in utterances :
    u.state = "speaking" => (isSpeaking /\ currentSpeakingMessageId = u.message)

====
